---- MODULE Spec2Model ----
(***************************************************************************)
(* rememfile: a table of (absolute path, SHA-256 hex digest) rows kept in  *)
(* an SQLite file, and the four workflows set / get / unset / clear that   *)
(* read and write it (src/rememfile.py).                                   *)
(*                                                                         *)
(* A path is a sequence of components; an absolute path starts with the   *)
(* component "/".  A file's content is a sequence of bytes.  The file      *)
(* system is a partial function from absolute paths to contents: a path    *)
(* outside its domain cannot be opened (OSError).                          *)
(***************************************************************************)
EXTENDS Integers, Sequences, FiniteSets, TLC

VARIABLES
    hashes,     \* the rows of table `hashes`, in rowid order
    fs,         \* the files that can be read: absolute path -> bytes
    cwd,        \* the working directory of the next invocation
    call,       \* the last event: [action, files]
    retval,     \* what the last invocation returned
    stdout,     \* the lines the last invocation printed
    stderr,     \* the progress messages the last invocation logged
    recorded,   \* history: absolute path -> content at its last successful
                \* set, while no unset of it and no clear followed
    prior,      \* history: <<r>> when the last invocation was a set or an
                \* unset and the same call, returning r, came right before it
    run,        \* <<>>, or <<r>> once the program ran from the command
                \* line: its exit status, whether it opened the database,
                \* the paths it hashed
    procs       \* <<>>, or the invocations that run side by side on the
                \* table: for each its action, its list, the paths done,
                \* the store call it makes next, and its local variables

vars == <<hashes, fs, cwd, call, retval, stdout, stderr, recorded, prior,
          run, procs>>

(***************************************************************************)
(* Bounds and the finite universe of the model.                            *)
(***************************************************************************)
MaxFiles == 2

Root == <<"/">>
DirD == <<"/", "d">>
FileA == <<"/", "a">>
FileDA == <<"/", "d", "a">>

\* the places where a regular file may exist
FsPaths == {FileA, FileDA}
\* the working directories an invocation may start in
Dirs == {Root, DirD}
\* the file arguments given to an invocation
Args == {<<"a">>, FileDA}
\* file contents: "x", "y"
Contents == {<<120>>, <<121>>}

FileLists == UNION {[1..n -> Args] : n \in 0..MaxFiles}
FileSystems == UNION {[S -> Contents] : S \in SUBSET FsPaths}

(***************************************************************************)
(* Paths.                                                                  *)
(***************************************************************************)
isabs(p) == Len(p) > 0 /\ p[1] = "/"

RECURSIVE normpath(_)
normpath(p) ==
    IF Len(p) = 0 THEN <<>>
    ELSE LET init == normpath(SubSeq(p, 1, Len(p) - 1))
             c == p[Len(p)]
         IN  IF c = "." THEN init
             ELSE IF c = ".."
                  THEN IF init = Root THEN init
                       ELSE IF Len(init) > 0 /\ init[Len(init)] # ".."
                            THEN SubSeq(init, 1, Len(init) - 1)
                            ELSE Append(init, c)
                  ELSE Append(init, c)

\* Faulty variant of abspath: the argument is used as it was given.
abspath_as_given(wd, p) == p

abspath(wd, p) == normpath(IF isabs(p) THEN p ELSE wd \o p)

RECURSIVE PathStr(_)
PathStr(p) ==
    IF Len(p) = 0 THEN ""
    ELSE IF p[1] = "/"
         THEN IF Len(p) = 1 THEN "/" ELSE "/" \o PathStr(Tail(p))
         ELSE IF Len(p) = 1 THEN p[1] ELSE p[1] \o "/" \o PathStr(Tail(p))

(***************************************************************************)
(* The content hasher.  SHA-256 is taken to be collision free on the       *)
(* contents of the model: the digest of a byte string is a 64-character   *)
(* hex string that determines it.                                          *)
(***************************************************************************)
HexDigits == <<"0", "1", "2", "3", "4", "5", "6", "7",
               "8", "9", "a", "b", "c", "d", "e", "f">>

HexByte(b) == HexDigits[(b \div 16) + 1] \o HexDigits[(b % 16) + 1]

RECURSIVE HexBytes(_)
HexBytes(bytes) ==
    IF bytes = <<>> THEN "" ELSE HexByte(Head(bytes)) \o HexBytes(Tail(bytes))

ChunkSize == 4096

\* hashlib.sha256().hexdigest() after the updates that accumulated `acc`:
\* 64 hex characters.  Up to three bytes are spelled out; a longer input
\* is told apart by its length and its first, middle and last byte.
Sha256Hex(acc) ==
    LET n == Len(acc)
        zeros == "0000000000000000000000000000000000000000000000000000000000"
        long == "ffffffffffffffffffffffffffffffffffffffffffffffffffffff"
    IN  IF n <= 3
        THEN zeros \o (IF n = 0 THEN "000000"
                       ELSE IF n = 1 THEN "0000"
                       ELSE IF n = 2 THEN "00" ELSE "")
             \o HexBytes(acc)
        ELSE long \o HexByte(n \div 256) \o HexByte(n % 256)
             \o HexByte(acc[1]) \o HexByte(acc[(n + 1) \div 2])
             \o HexByte(acc[n])

\* "-"*64
Sentinel == "----------------------------------------------------------------"
None == "None"

\* f.read(ChunkSize) at offset `pos`
ReadChunk(data, pos) ==
    SubSeq(data, pos + 1, IF pos + ChunkSize < Len(data)
                          THEN pos + ChunkSize ELSE Len(data))

\* Faulty variant of HashLoop: a failed read ends the loop and the bytes
\* read so far are digested.
RECURSIVE HashLoopPartial(_, _, _, _, _)
HashLoopPartial(data, pos, acc, calls, fail) ==
    LET chunk == ReadChunk(data, pos)
    IN  IF fail = calls + 1 THEN Sha256Hex(acc)
        ELSE IF chunk # <<>>
        THEN HashLoopPartial(data, pos + Len(chunk), acc \o chunk,
                             calls + 1, fail)
        ELSE Sha256Hex(acc)

\* the loop of calculate_hash_digest after `calls` calls on the file (the
\* open and the reads so far); the call numbered `fail` raises OSError
RECURSIVE HashLoop(_, _, _, _, _)
HashLoop(data, pos, acc, calls, fail) ==
    LET chunk == ReadChunk(data, pos)
    IN  IF fail = calls + 1 THEN None
        ELSE IF chunk # <<>>
        THEN HashLoop(data, pos + Len(chunk), acc \o chunk, calls + 1, fail)
        ELSE Sha256Hex(acc)

\* calculate_hash_digest on a file with bytes `data` on which the call
\* numbered `fail` raises OSError: 1 is the open, k + 1 the k-th read, 0 none
HashFile(data, fail) ==
    IF fail = 1 THEN None ELSE HashLoop(data, 0, <<>>, 1, fail)

\* a file outside fsys cannot be opened; a file in it is read without error
calculate_hash_digest(fsys, filepath) ==
    IF filepath \notin DOMAIN fsys THEN None
    ELSE HashFile(fsys[filepath], 0)

(***************************************************************************)
(* class HashDatabase: the table is a sequence of rows [name, hash].       *)
(***************************************************************************)
Row(name, hash) == [name |-> name, hash |-> hash]

\* the rows of db whose column holds the value (WHERE column = ?), or
\* with equal FALSE the other rows, in table order
Where(db, column, value, equal) ==
    SelectSeq(db, LAMBDA r : (r[column] = value) = equal)

\* Faulty variant of store_hash: a plain INSERT into a table without the
\* primary key.
store_hash_append(db, name, hash) == Append(db, Row(name, hash))

\* Faulty variant of store_hash: INSERT OR IGNORE, the row that holds the
\* name is kept.
store_hash_ignore(db, name, hash) ==
    IF Where(db, "name", name, TRUE) # <<>> THEN db
    ELSE Append(db, Row(name, hash))

\* REPLACE INTO hashes (name, hash): name is the primary key, so the row
\* that holds it is deleted before the new row is inserted
store_hash(db, name, hash) ==
    Append(Where(db, "name", name, FALSE), Row(name, hash))

\* Faulty variant of delete_by_name: delete_by_hash is called with the
\* digest of the row, so every row with that digest goes.
delete_by_name_hash(db, name) ==
    LET found == Where(db, "name", name, TRUE)
    IN  IF found = <<>> THEN db
        ELSE Where(db, "hash", found[1].hash, FALSE)

\* DELETE FROM hashes WHERE name = ?
delete_by_name(db, name) == Where(db, "name", name, FALSE)

\* Faulty variant of delete_all: the statement is never executed.
delete_all_noop(db) == db

\* DELETE FROM hashes
delete_all(db) == <<>>

\* Faulty variant of get_hashes: fetchone, the first matching row alone.
get_hashes_fetchone(db, hash) ==
    LET found == Where(db, "hash", hash, TRUE)
    IN  IF found = <<>> THEN <<>> ELSE <<found[1]>>

\* SELECT name, hash FROM hashes WHERE hash = ?  (fetchall)
get_hashes(db, hash) == Where(db, "hash", hash, TRUE)

\* Faulty variant of get_hash_by_name: the name is matched against the hash
\* column, which never holds a path, so no row is found.
get_hash_by_name_wrong_column(db, name) == <<>>

\* SELECT name, hash FROM hashes WHERE name = ?  (fetchone): <<>> is None
get_hash_by_name(db, name) ==
    LET found == Where(db, "name", name, TRUE)
    IN  IF found = <<>> THEN <<>> ELSE <<found[1]>>

\* SELECT COUNT(*) FROM hashes
get_number_of_hashes(db) == Len(db)

(***************************************************************************)
(* The workflows.  Each returns the values the code returns together with  *)
(* the table it leaves, the lines printed, the messages logged, whether    *)
(* it opened the database (HashDatabase()) and the paths it handed to      *)
(* calculate_hash_digest, in order.                                        *)
(***************************************************************************)
Flags == [show_hashes : BOOLEAN, show_absolute_paths : BOOLEAN,
          show_all : BOOLEAN, silent : BOOLEAN, verbose : BOOLEAN]

\* the keyword arguments of set_hashes, get_hashes, unset_hashes
LibraryFlags == [show_hashes |-> FALSE, show_absolute_paths |-> FALSE,
                 show_all |-> FALSE, silent |-> TRUE, verbose |-> FALSE]

LOGVERBOSE(verbose, msgs) == IF verbose THEN msgs ELSE <<>>

Quoted(p) == "'" \o PathStr(p) \o "'"

\* Faulty variant of SetState: the comparison of the stored digest with
\* the computed one is inverted.
SetStateInverted(computed, row) ==
    IF computed = None THEN "FILEERR"
    ELSE IF row = <<>> THEN "CREATED"
    ELSE IF row[1].hash = computed THEN "UPDATED"
    ELSE "NCHANGE"

\* the state _set_hash reaches from the computed digest and the row found
SetState(computed, row) ==
    IF computed = None THEN "FILEERR"
    ELSE IF row = <<>> THEN "CREATED"
    ELSE IF row[1].hash # computed THEN "UPDATED"
    ELSE "NCHANGE"

\* Faulty variant of ShouldStore: a failed read is stored too.
ShouldStoreOnError(state) == state \notin {"NCHANGE"}

\* Faulty variant of ShouldStore: only a new path is stored.
ShouldStoreNewOnly(state) == state = "CREATED"

\* whether _set_hash writes the row
ShouldStore(state) == state \notin {"NCHANGE", "FILEERR"}

_set_hash(db, fsys, wd, filepath, verbose) ==
    LET ap == abspath(wd, filepath)
        computed == calculate_hash_digest(fsys, ap)
        row == IF computed = None THEN <<>> ELSE get_hash_by_name(db, ap)
        state == SetState(computed, row)
        hexdigest == IF computed = None THEN Sentinel ELSE computed
        log1 == <<"calculating hash for " \o Quoted(ap)>>
        log2 == IF computed = None
                THEN <<"failed to calculate hash of " \o Quoted(ap)>>
                ELSE <<Quoted(ap) \o "=" \o hexdigest>>
        log3 == IF ShouldStore(state)
                THEN <<"storing hash of " \o Quoted(ap)>>
                ELSE IF state = "NCHANGE"
                     THEN <<"hash unchanged, skipping " \o Quoted(ap)>>
                     ELSE <<>>
    IN  [state |-> state,
         hexdigest |-> hexdigest,
         db |-> IF ShouldStore(state)
                THEN store_hash(db, ap, hexdigest) ELSE db,
         err |-> LOGVERBOSE(verbose, log1 \o log2 \o log3)]

\* Faulty variant of SetLoop: the loop is left at the first path that
\* cannot be read.
RECURSIVE SetLoopAbort(_, _, _, _, _, _)
SetLoopAbort(db, fsys, wd, filepaths, fl, n) ==
    IF n = 0
    THEN [db |-> db, result |-> <<>>, out |-> <<>>,
          err |-> LOGVERBOSE(fl.verbose, <<"opening hash database">>),
          opened |-> TRUE, hashed |-> <<>>]
    ELSE LET before == SetLoopAbort(db, fsys, wd, filepaths, fl, n - 1)
             ap == abspath(wd, filepaths[n])
             r == _set_hash(before.db, fsys, wd, ap, fl.verbose)
             stopped == \/ Len(before.result) < n - 1
                        \/ /\ n > 1
                           /\ before.result[n - 1].state = "FILEERR"
         IN  IF stopped THEN before
             ELSE [db |-> r.db,
                   result |-> Append(before.result,
                                [state |-> r.state, hexdigest |-> r.hexdigest,
                                 abspath |-> ap]),
                   out |-> before.out,
                   err |-> before.err \o r.err,
                   opened |-> before.opened,
                   hashed |-> Append(before.hashed, ap)]

\* Faulty variant of SetLoop: the state is not looked at before printing,
\* so that NCHANGE is printed without show_all.
RECURSIVE SetLoopShowsAll(_, _, _, _, _, _)
SetLoopShowsAll(db, fsys, wd, filepaths, fl, n) ==
    IF n = 0
    THEN [db |-> db, result |-> <<>>, out |-> <<>>,
          err |-> LOGVERBOSE(fl.verbose, <<"opening hash database">>),
          opened |-> TRUE, hashed |-> <<>>]
    ELSE LET before == SetLoopShowsAll(db, fsys, wd, filepaths, fl, n - 1)
             fp == filepaths[n]
             ap == abspath(wd, fp)
             r == _set_hash(before.db, fsys, wd, ap, fl.verbose)
             path_to_display == IF fl.show_absolute_paths THEN ap ELSE fp
             line == IF fl.show_hashes
                     THEN r.state \o " " \o r.hexdigest \o " "
                          \o PathStr(path_to_display)
                     ELSE r.state \o " " \o PathStr(path_to_display)
             shown == ~fl.silent
         IN  [db |-> r.db,
              result |-> Append(before.result,
                                [state |-> r.state, hexdigest |-> r.hexdigest,
                                 abspath |-> ap]),
              out |-> IF shown THEN Append(before.out, line) ELSE before.out,
              err |-> before.err \o r.err,
              opened |-> before.opened,
              hashed |-> Append(before.hashed, ap)]

\* Faulty variant of SetLoop: the result of a path is appended inside the
\* branch that prints its line.
RECURSIVE SetLoopResultWhenShown(_, _, _, _, _, _)
SetLoopResultWhenShown(db, fsys, wd, filepaths, fl, n) ==
    IF n = 0
    THEN [db |-> db, result |-> <<>>, out |-> <<>>,
          err |-> LOGVERBOSE(fl.verbose, <<"opening hash database">>),
          opened |-> TRUE, hashed |-> <<>>]
    ELSE LET before ==
                 SetLoopResultWhenShown(db, fsys, wd, filepaths, fl, n - 1)
             fp == filepaths[n]
             ap == abspath(wd, fp)
             r == _set_hash(before.db, fsys, wd, ap, fl.verbose)
             path_to_display == IF fl.show_absolute_paths THEN ap ELSE fp
             line == IF fl.show_hashes
                     THEN r.state \o " " \o r.hexdigest \o " "
                          \o PathStr(path_to_display)
                     ELSE r.state \o " " \o PathStr(path_to_display)
             shown == ~fl.silent
                      /\ (fl.show_all
                          \/ r.state \in {"CREATED", "UPDATED", "FILEERR"})
         IN  [db |-> r.db,
              result |-> IF shown
                         THEN Append(before.result,
                                [state |-> r.state, hexdigest |-> r.hexdigest,
                                 abspath |-> ap])
                         ELSE before.result,
              out |-> IF shown THEN Append(before.out, line) ELSE before.out,
              err |-> before.err \o r.err,
              opened |-> before.opened,
              hashed |-> Append(before.hashed, ap)]

\* the state of _set_hashes after the first n paths of the list
RECURSIVE SetLoop(_, _, _, _, _, _)
SetLoop(db, fsys, wd, filepaths, fl, n) ==
    IF n = 0
    THEN [db |-> db, result |-> <<>>, out |-> <<>>,
          err |-> LOGVERBOSE(fl.verbose, <<"opening hash database">>),
          opened |-> TRUE, hashed |-> <<>>]
    ELSE LET before == SetLoop(db, fsys, wd, filepaths, fl, n - 1)
             fp == filepaths[n]
             ap == abspath(wd, fp)
             r == _set_hash(before.db, fsys, wd, ap, fl.verbose)
             path_to_display == IF fl.show_absolute_paths THEN ap ELSE fp
             line == IF fl.show_hashes
                     THEN r.state \o " " \o r.hexdigest \o " "
                          \o PathStr(path_to_display)
                     ELSE r.state \o " " \o PathStr(path_to_display)
             shown == ~fl.silent
                      /\ (fl.show_all
                          \/ r.state \in {"CREATED", "UPDATED", "FILEERR"})
         IN  [db |-> r.db,
              result |-> Append(before.result,
                                [state |-> r.state, hexdigest |-> r.hexdigest,
                                 abspath |-> ap]),
              out |-> IF shown THEN Append(before.out, line) ELSE before.out,
              err |-> before.err \o r.err,
              opened |-> before.opened,
              hashed |-> Append(before.hashed, ap)]

_set_hashes(db, fsys, wd, filepaths, fl) ==
    SetLoop(db, fsys, wd, filepaths, fl, Len(filepaths))

\* Faulty variant of _get_hash: the row of the queried path is looked up,
\* not the rows with its digest.
_get_hash_by_path(db, fsys, wd, filepath, verbose) ==
    LET ap == abspath(wd, filepath)
        computed == calculate_hash_digest(fsys, ap)
        hexdigest == IF computed = None THEN Sentinel ELSE computed
        rows == IF computed = None THEN <<>> ELSE get_hash_by_name(db, ap)
    IN  [state |-> IF computed = None THEN "ERR"
                   ELSE IF rows # <<>> THEN "HIT" ELSE "N/A",
         hexdigest |-> hexdigest,
         hashes |-> rows,
         err |-> <<>>]

_get_hash(db, fsys, wd, filepath, verbose) ==
    LET ap == abspath(wd, filepath)
        computed == calculate_hash_digest(fsys, ap)
        hexdigest == IF computed = None THEN Sentinel ELSE computed
        rows == IF computed = None THEN <<>> ELSE get_hashes(db, hexdigest)
        log1 == <<"calculating hash for " \o Quoted(ap)>>
        log2 == IF computed = None
                THEN <<"failed to calculate hash of " \o Quoted(ap)>>
                ELSE <<Quoted(ap) \o "=" \o hexdigest>>
    IN  [state |-> IF computed = None THEN "ERR"
                   ELSE IF rows # <<>> THEN "HIT" ELSE "N/A",
         hexdigest |-> hexdigest,
         hashes |-> rows,
         err |-> LOGVERBOSE(verbose, log1 \o log2)]

\* [r[0] for r in hashes]
Names(rows) == [i \in 1..Len(rows) |-> rows[i].name]

\* ",".join(names)
RECURSIVE JoinNames(_)
JoinNames(names) ==
    IF Len(names) = 0 THEN ""
    ELSE IF Len(names) = 1 THEN PathStr(names[1])
    ELSE PathStr(names[1]) \o "," \o JoinNames(Tail(names))

\* the state of _get_hashes after the first n paths of the list
RECURSIVE GetLoop(_, _, _, _, _, _)
GetLoop(db, fsys, wd, filepaths, fl, n) ==
    IF n = 0
    THEN [db |-> db, result |-> <<>>, out |-> <<>>,
          err |-> LOGVERBOSE(fl.verbose, <<"opening hash database">>),
          opened |-> TRUE, hashed |-> <<>>]
    ELSE LET before == GetLoop(db, fsys, wd, filepaths, fl, n - 1)
             fp == filepaths[n]
             ap == abspath(wd, fp)
             r == _get_hash(before.db, fsys, wd, ap, fl.verbose)
             src_path_to_display ==
                 IF fl.show_absolute_paths THEN ap ELSE fp
             joined == JoinNames(Names(r.hashes))
             dst_path_to_display ==
                 IF joined # "" THEN "-> " \o joined ELSE joined
             line == IF fl.show_hashes
                     THEN r.state \o " " \o r.hexdigest \o " "
                          \o PathStr(src_path_to_display) \o " "
                          \o dst_path_to_display
                     ELSE r.state \o " " \o PathStr(src_path_to_display)
                          \o " " \o dst_path_to_display
             shown == ~fl.silent
                      /\ (fl.show_all \/ r.state \in {"HIT", "ERR"})
         IN  [db |-> before.db,
              result |-> Append(before.result,
                                [state |-> r.state, hexdigest |-> r.hexdigest,
                                 abspath |-> ap, names |-> Names(r.hashes)]),
              out |-> IF shown THEN Append(before.out, line) ELSE before.out,
              err |-> before.err \o r.err,
              opened |-> before.opened,
              hashed |-> Append(before.hashed, ap)]

\* Faulty variant of _get_hashes: the queried files are recorded as well.
_get_hashes_recording(db, fsys, wd, filepaths, fl) ==
    [GetLoop(db, fsys, wd, filepaths, fl, Len(filepaths)) EXCEPT
        !.db = _set_hashes(db, fsys, wd, filepaths, fl).db]

_get_hashes(db, fsys, wd, filepaths, fl) ==
    GetLoop(db, fsys, wd, filepaths, fl, Len(filepaths))

\* Faulty variant of _unset_hash: the file is hashed, as in _set_hash, and
\* the digest returned is the one computed.
_unset_hash_hashing(db, wd, filepath, verbose) ==
    LET ap == abspath(wd, filepath)
        computed == calculate_hash_digest(fs, ap)
        row == IF computed = None THEN <<>> ELSE get_hash_by_name(db, ap)
    IN  [state |-> IF row # <<>> THEN "DELETED" ELSE "NOENTRY",
         hash |-> IF row # <<>> THEN computed ELSE Sentinel,
         name |-> IF row # <<>> THEN PathStr(row[1].name) ELSE "",
         db |-> IF row # <<>> THEN delete_by_name(db, ap) ELSE db,
         err |-> <<>>]

_unset_hash(db, wd, filepath, verbose) ==
    LET ap == abspath(wd, filepath)
        row == get_hash_by_name(db, ap)
    IN  [state |-> IF row # <<>> THEN "DELETED" ELSE "NOENTRY",
         hash |-> IF row # <<>> THEN row[1].hash ELSE Sentinel,
         name |-> IF row # <<>> THEN PathStr(row[1].name) ELSE "",
         db |-> IF row # <<>> THEN delete_by_name(db, ap) ELSE db,
         err |-> LOGVERBOSE(verbose,
                    IF row # <<>>
                    THEN <<"deleting hash of " \o Quoted(ap)>>
                    ELSE <<"hash not found, skipping " \o Quoted(ap)>>)]

\* the state of _unset_hashes after the first n paths of the list
RECURSIVE UnsetLoop(_, _, _, _, _)
UnsetLoop(db, wd, filepaths, fl, n) ==
    IF n = 0
    THEN [db |-> db, result |-> <<>>, out |-> <<>>,
          err |-> LOGVERBOSE(fl.verbose, <<"opening hash database">>),
          opened |-> TRUE, hashed |-> <<>>]
    ELSE LET before == UnsetLoop(db, wd, filepaths, fl, n - 1)
             fp == filepaths[n]
             ap == abspath(wd, fp)
             r == _unset_hash(before.db, wd, ap, fl.verbose)
             path_to_display == IF fl.show_absolute_paths THEN ap ELSE fp
             line == IF fl.show_hashes
                     THEN r.state \o " " \o r.hash \o " "
                          \o PathStr(path_to_display)
                     ELSE r.state \o " " \o PathStr(path_to_display)
             shown == ~fl.silent /\ (fl.show_all \/ r.state = "DELETED")
         IN  [db |-> r.db,
              result |-> Append(before.result,
                                [state |-> r.state, hexdigest |-> r.hash,
                                 abspath |-> ap]),
              out |-> IF shown THEN Append(before.out, line) ELSE before.out,
              err |-> before.err \o r.err,
              opened |-> before.opened,
              hashed |-> before.hashed]

_unset_hashes(db, wd, filepaths, fl) ==
    UnsetLoop(db, wd, filepaths, fl, Len(filepaths))

\* str(n) for n >= 0
RECURSIVE IntStr(_)
IntStr(n) ==
    IF n < 10 THEN HexDigits[n + 1]
    ELSE IntStr(n \div 10) \o HexDigits[(n % 10) + 1]

DeletedLine(count) == "Successfully deleted " \o IntStr(count) \o " entries."

\* Faulty variant of _clear_hashes: the rows are counted after the delete.
_clear_hashes_count_late(db, filepaths, silent, verbose) ==
    LET count == get_number_of_hashes(delete_all(db))
    IN  [db |-> delete_all(db),
         result |-> count,
         out |-> IF ~silent THEN <<DeletedLine(count)>> ELSE <<>>,
         err |-> <<>>,
         opened |-> TRUE, hashed |-> <<>>]

_clear_hashes(db, filepaths, silent, verbose) ==
    LET count == get_number_of_hashes(db)
    IN  [db |-> delete_all(db),
         result |-> count,
         out |-> IF ~silent THEN <<DeletedLine(count)>> ELSE <<>>,
         err |-> LOGVERBOSE(verbose,
                    <<"opening hash database",
                      "querying row counts of 'hashes' table",
                      "deleting everything in 'hashes' table">>),
         opened |-> TRUE, hashed |-> <<>>]

(***************************************************************************)
(* History.  recorded follows the calls alone, not the table: a successful *)
(* set of a path records the content the file had, an unset of the path    *)
(* or a clear forgets it.                                                  *)
(***************************************************************************)
Resolved(wd, filepaths) == {abspath(wd, filepaths[i]) : i \in 1..Len(filepaths)}

RecordedAfterSet(filepaths) ==
    LET read == Resolved(cwd, filepaths) \cap DOMAIN fs
    IN  [p \in DOMAIN recorded \cup read |->
            IF p \in read THEN fs[p] ELSE recorded[p]]

RecordedAfterUnset(filepaths) ==
    [p \in DOMAIN recorded \ Resolved(cwd, filepaths) |-> recorded[p]]

Event(action, filepaths) == [action |-> action, files |-> filepaths]

PriorAfter(action, filepaths) ==
    IF call = Event(action, filepaths) THEN <<retval>> ELSE <<>>

(***************************************************************************)
(* The invocations of the library entry points, and the environment.       *)
(***************************************************************************)
set_hashes(filepaths) ==
    LET r == _set_hashes(hashes, fs, cwd, filepaths, LibraryFlags)
    IN  /\ hashes' = r.db
        /\ retval' = r.result
        /\ stdout' = r.out
        /\ stderr' = r.err
        /\ call' = Event("set", filepaths)
        /\ prior' = PriorAfter("set", filepaths)
        /\ recorded' = RecordedAfterSet(filepaths)
        /\ UNCHANGED <<fs, cwd, run, procs>>

get_hashes_call(filepaths) ==
    LET r == _get_hashes(hashes, fs, cwd, filepaths, LibraryFlags)
    IN  /\ hashes' = r.db
        /\ retval' = r.result
        /\ stdout' = r.out
        /\ stderr' = r.err
        /\ call' = Event("get", filepaths)
        /\ prior' = <<>>
        /\ UNCHANGED <<fs, cwd, recorded, run, procs>>

unset_hashes(filepaths) ==
    LET r == _unset_hashes(hashes, cwd, filepaths, LibraryFlags)
    IN  /\ hashes' = r.db
        /\ retval' = r.result
        /\ stdout' = r.out
        /\ stderr' = r.err
        /\ call' = Event("unset", filepaths)
        /\ prior' = PriorAfter("unset", filepaths)
        /\ recorded' = RecordedAfterUnset(filepaths)
        /\ UNCHANGED <<fs, cwd, run, procs>>

clear_hashes(filepaths) ==
    LET r == _clear_hashes(hashes, filepaths, TRUE, FALSE)
    IN  /\ hashes' = r.db
        /\ retval' = r.result
        /\ stdout' = r.out
        /\ stderr' = r.err
        /\ call' = Event("clear", filepaths)
        /\ prior' = <<>>
        /\ recorded' = <<>>
        /\ UNCHANGED <<fs, cwd, run, procs>>

\* between invocations the user writes, removes files and changes directory
Idle ==
    /\ call' = Event("env", <<>>)
    /\ retval' = <<>>
    /\ stdout' = <<>>
    /\ stderr' = <<>>
    /\ prior' = <<>>
    /\ run' = <<>>
    /\ UNCHANGED <<hashes, recorded, procs>>

WriteFile(p, c) ==
    /\ fs' = [q \in DOMAIN fs \cup {p} |-> IF q = p THEN c ELSE fs[q]]
    /\ UNCHANGED cwd
    /\ Idle

RemoveFile(p) ==
    /\ p \in DOMAIN fs
    /\ fs' = [q \in DOMAIN fs \ {p} |-> fs[q]]
    /\ UNCHANGED cwd
    /\ Idle

Chdir(d) ==
    /\ d # cwd
    /\ cwd' = d
    /\ UNCHANGED fs
    /\ Idle

Init ==
    /\ hashes = <<>>
    /\ fs = <<>>
    /\ cwd = Root
    /\ call = Event("env", <<>>)
    /\ retval = <<>>
    /\ stdout = <<>>
    /\ stderr = <<>>
    /\ recorded = <<>>
    /\ prior = <<>>
    /\ run = <<>>
    /\ procs = <<>>

Next ==
    \/ \E filepaths \in FileLists : set_hashes(filepaths)
    \/ \E filepaths \in FileLists : get_hashes_call(filepaths)
    \/ \E filepaths \in FileLists : unset_hashes(filepaths)
    \/ \E filepaths \in FileLists : clear_hashes(filepaths)
    \/ \E p \in FsPaths, c \in Contents : WriteFile(p, c)
    \/ \E p \in FsPaths : RemoveFile(p)
    \/ \E d \in Dirs : Chdir(d)

Spec == Init /\ [][Next]_vars

(***************************************************************************)
(* The program run from the command line: main() with the parsed           *)
(* arguments.  The flag -r/--recursive is parsed and never read.           *)
(***************************************************************************)
Actions == {"s", "set", "g", "get", "u", "unset", "c", "clear", "x"}

\* parser.print_usage()
Usage ==
    "usage: rememfile.py [-h] [-s] [-a] [-H] [-A] [-r] [-v] action [files ...]"

ActionError ==
    "rememfile.py: error: action must be one of '[s]et', '[g]et', "
    \o "'[u]nset', or '[c]lear'"

\* what main returns, with what the workflow it called did
Exit(status, r) ==
    [status |-> status, db |-> r.db, result |-> r.result, out |-> r.out,
     err |-> r.err, opened |-> r.opened, hashed |-> r.hashed]

\* Faulty variant of main_usage_error: an unknown action falls through to
\* the branch of clear.
main_unknown_clears(db, filepaths, fl) ==
    Exit(2, _clear_hashes(db, filepaths, fl.silent, fl.verbose))

\* the else branch of main: no workflow is called
main_usage_error(db, filepaths, fl) ==
    [status |-> 2, db |-> db, result |-> <<>>,
     out |-> <<Usage, ActionError>>, err |-> <<>>,
     opened |-> FALSE, hashed |-> <<>>]

main(db, fsys, wd, action, filepaths, fl) ==
    IF action \in {"s", "set"}
    THEN Exit(0, _set_hashes(db, fsys, wd, filepaths, fl))
    ELSE IF action \in {"g", "get"}
    THEN Exit(0, _get_hashes(db, fsys, wd, filepaths, fl))
    ELSE IF action \in {"u", "unset"}
    THEN Exit(0, _unset_hashes(db, wd, filepaths, fl))
    ELSE IF action \in {"c", "clear"}
    THEN Exit(0, _clear_hashes(db, filepaths, fl.silent, fl.verbose))
    ELSE main_usage_error(db, filepaths, fl)

Arguments(action, filepaths, fl) ==
    [action |-> action, files |-> filepaths, flags |-> fl]

\* one run of the program; retval keeps what the workflow returned, which
\* main drops
main_call(action, filepaths, fl) ==
    LET r == main(hashes, fs, cwd, action, filepaths, fl)
    IN  /\ hashes' = r.db
        /\ retval' = r.result
        /\ stdout' = r.out
        /\ stderr' = r.err
        /\ run' = << [status |-> r.status, opened |-> r.opened,
                      hashed |-> r.hashed] >>
        /\ call' = Arguments(action, filepaths, fl)
        /\ prior' = <<>>
        /\ recorded' =
               IF action \in {"s", "set"} THEN RecordedAfterSet(filepaths)
               ELSE IF action \in {"u", "unset"}
               THEN RecordedAfterUnset(filepaths)
               ELSE IF action \in {"c", "clear"} THEN <<>>
               ELSE recorded
        /\ UNCHANGED <<fs, cwd, procs>>

\* the process is gone; the table and the files stay
ProcessExit ==
    /\ run # <<>>
    /\ UNCHANGED <<fs, cwd>>
    /\ Idle

\* a run ends before the next thing happens
NextCLI ==
    \/ /\ run = <<>>
       /\ \/ \E action \in Actions, filepaths \in FileLists, fl \in Flags :
                main_call(action, filepaths, fl)
          \/ \E p \in FsPaths, c \in Contents : WriteFile(p, c)
          \/ \E p \in FsPaths : RemoveFile(p)
    \/ ProcessExit

SpecCLI == Init /\ [][NextCLI]_vars

(***************************************************************************)
(* Two invocations side by side on one database file.  No lock is taken    *)
(* by the program; every method of HashDatabase runs one statement, and    *)
(* the writing ones commit before they return, so a step of an invocation  *)
(* is one store call, with the hashing that precedes it.  Meanwhile the    *)
(* files can be written.                                                   *)
(***************************************************************************)
Procs == {1, 2}

\* the paths an invocation is given at most, when two run side by side
MaxSideBySide == 1

Done == [action |-> "none", files |-> <<>>, i |-> 0, pc |-> "done",
         state |-> "", local |-> ""]

Invocations ==
    {Event(a, f) : a \in {"set", "get", "unset"},
                   f \in UNION {[1..n -> Args] : n \in 1..MaxSideBySide}}
    \cup {Event("clear", <<>>)}

At(p, action, pc) ==
    /\ procs[p].action = action
    /\ procs[p].pc = pc

\* the path the invocation works on
Current(p) == abspath(cwd, procs[p].files[procs[p].i + 1])

\* the loop goes on with the next path, or the invocation returns
Advance(p) ==
    [procs[p] EXCEPT !.i = @ + 1,
                     !.pc = IF procs[p].i + 1 = Len(procs[p].files)
                            THEN "done" ELSE "lookup",
                     !.state = "", !.local = ""]

\* HashDatabase() creates the tables when they are missing: no row changes
Invoke(p, inv) ==
    /\ procs[p].pc = "done"
    /\ procs' = [procs EXCEPT ![p] =
                    [action |-> inv.action, files |-> inv.files, i |-> 0,
                     pc |-> "lookup", state |-> "", local |-> ""]]
    /\ UNCHANGED <<hashes, fs, cwd, call, retval, stdout, stderr, recorded,
                   prior, run>>

\* _set_hash up to get_hash_by_name
SetLookup(p) ==
    LET ap == Current(p)
        computed == calculate_hash_digest(fs, ap)
        row == IF computed = None THEN <<>> ELSE get_hash_by_name(hashes, ap)
        state == SetState(computed, row)
    IN  /\ At(p, "set", "lookup")
        /\ procs' = [procs EXCEPT ![p] =
                        IF ShouldStore(state)
                        THEN [@ EXCEPT !.pc = "write", !.state = state,
                                       !.local = computed]
                        ELSE Advance(p)]
        /\ UNCHANGED <<hashes, fs, cwd, call, retval, stdout, stderr,
                       recorded, prior, run>>

\* _set_hash: store_hash
SetWrite(p) ==
    /\ At(p, "set", "write")
    /\ hashes' = store_hash(hashes, Current(p), procs[p].local)
    /\ procs' = [procs EXCEPT ![p] = Advance(p)]
    /\ UNCHANGED <<fs, cwd, call, retval, stdout, stderr, recorded, prior,
                   run>>

\* _get_hash: get_hashes is its one store call
GetLookup(p) ==
    /\ At(p, "get", "lookup")
    /\ procs' = [procs EXCEPT ![p] = Advance(p)]
    /\ UNCHANGED <<hashes, fs, cwd, call, retval, stdout, stderr, recorded,
                   prior, run>>

\* _unset_hash: get_hash_by_name
UnsetLookup(p) ==
    LET row == get_hash_by_name(hashes, Current(p))
    IN  /\ At(p, "unset", "lookup")
        /\ procs' = [procs EXCEPT ![p] =
                        IF row # <<>>
                        THEN [@ EXCEPT !.pc = "write", !.state = "DELETED",
                                       !.local = row[1].hash]
                        ELSE Advance(p)]
        /\ UNCHANGED <<hashes, fs, cwd, call, retval, stdout, stderr,
                       recorded, prior, run>>

\* _unset_hash: delete_by_name
UnsetWrite(p) ==
    /\ At(p, "unset", "write")
    /\ hashes' = delete_by_name(hashes, Current(p))
    /\ procs' = [procs EXCEPT ![p] = Advance(p)]
    /\ UNCHANGED <<fs, cwd, call, retval, stdout, stderr, recorded, prior,
                   run>>

\* _clear_hashes: get_number_of_hashes
ClearCount(p) ==
    /\ At(p, "clear", "lookup")
    /\ procs' = [procs EXCEPT ![p] =
                    [@ EXCEPT !.pc = "write",
                              !.local = IntStr(get_number_of_hashes(hashes))]]
    /\ UNCHANGED <<hashes, fs, cwd, call, retval, stdout, stderr, recorded,
                   prior, run>>

\* _clear_hashes: delete_all
ClearWrite(p) ==
    /\ At(p, "clear", "write")
    /\ hashes' = delete_all(hashes)
    /\ procs' = [procs EXCEPT ![p] = Done]
    /\ UNCHANGED <<fs, cwd, call, retval, stdout, stderr, recorded, prior,
                   run>>

InitConc ==
    /\ hashes = <<>>
    /\ fs = <<>>
    /\ cwd = Root
    /\ call = Event("env", <<>>)
    /\ retval = <<>>
    /\ stdout = <<>>
    /\ stderr = <<>>
    /\ recorded = <<>>
    /\ prior = <<>>
    /\ run = <<>>
    /\ procs = [p \in Procs |-> Done]

NextConc ==
    \/ \E p \in Procs, inv \in Invocations : Invoke(p, inv)
    \/ \E p \in Procs : SetLookup(p)
    \/ \E p \in Procs : SetWrite(p)
    \/ \E p \in Procs : GetLookup(p)
    \/ \E p \in Procs : UnsetLookup(p)
    \/ \E p \in Procs : UnsetWrite(p)
    \/ \E p \in Procs : ClearCount(p)
    \/ \E p \in Procs : ClearWrite(p)
    \/ \E f \in FsPaths, c \in Contents : WriteFile(f, c)

SpecConc == InitConc /\ [][NextConc]_vars

(***************************************************************************)
(* The content hasher alone, on files of up to MaxChunks full chunks and   *)
(* a byte, with an OSError at any call on the file.                        *)
(***************************************************************************)
MaxChunks == 2

HasherLengths ==
    {0, 1} \cup {k * ChunkSize + e : k \in 1..MaxChunks, e \in {-1, 0, 1}}

\* n bytes, the chunks filled with byte b and byte 241 - b in turn
Data(n, b) ==
    [i \in 1..n |-> IF ((i - 1) \div ChunkSize) % 2 = 0 THEN b ELSE 241 - b]

HasherFiles ==
    {[data |-> Data(n, b), fail |-> k] :
        n \in HasherLengths, b \in {120, 121}, k \in 0..(MaxChunks + 3)}

Quiet ==
    /\ hashes = <<>>
    /\ fs = <<>>
    /\ cwd = Root
    /\ stdout = <<>>
    /\ stderr = <<>>
    /\ recorded = <<>>
    /\ prior = <<>>
    /\ run = <<>>
    /\ procs = <<>>

InitHasher ==
    /\ \E f \in HasherFiles : call = [action |-> "file", file |-> f]
    /\ retval = <<>>
    /\ Quiet

calculate_hash_digest_call ==
    /\ call.action = "file"
    /\ call' = [call EXCEPT !.action = "hash"]
    /\ retval' = <<HashFile(call.file.data, call.file.fail)>>
    /\ UNCHANGED <<hashes, fs, cwd, stdout, stderr, recorded, prior, run,
                   procs>>

NextHasher == calculate_hash_digest_call

SpecHasher == InitHasher /\ [][NextHasher]_vars

(***************************************************************************)
(* What the table holds, read without the code's own queries.              *)
(***************************************************************************)
\* the digests the table holds for a path
Stored(db, name) == {db[i].hash : i \in {j \in 1..Len(db) : db[j].name = name}}

\* the number of rows the table holds for a path
Count(db, name) == Cardinality({j \in 1..Len(db) : db[j].name = name})

NamesIn(db) == {db[i].name : i \in 1..Len(db)}

\* the paths the table maps to a digest
PathsWith(db, hash) == {n \in NamesIn(db) : hash \in Stored(db, n)}

\* the entry of a path is the same in two tables
SameEntry(db1, db2, name) ==
    Stored(db1, name) = Stored(db2, name) /\ Count(db1, name) = Count(db2, name)

\* the i-th path of the list resolves to a path that no earlier one resolves to
FirstOccurrence(wd, filepaths, i) ==
    \A j \in 1..(i - 1) : abspath(wd, filepaths[j]) # abspath(wd, filepaths[i])

Readable(p) == p \in DOMAIN fs

SeqToSet(q) == {q[i] : i \in 1..Len(q)}

(***************************************************************************)
(* C1.  A set of a readable file at path p with digest d returns CREATED   *)
(* when the table has no entry for p, UPDATED when it has one with another *)
(* digest, NCHANGE when it has one with d; afterwards the table maps p to  *)
(* d, in one row, and the entry of every path that is not set is as it     *)
(* was.  (A path met again later in the same list meets the entry the      *)
(* first occurrence left: NCHANGE.)                                        *)
(***************************************************************************)
SetClassified(i) ==
    LET p == abspath(cwd, call'.files[i])
        d == Sha256Hex(fs[p])
        old == Stored(hashes, p)
    IN  Readable(p) =>
          /\ retval'[i].state =
                IF ~FirstOccurrence(cwd, call'.files, i) THEN "NCHANGE"
                ELSE IF old = {} THEN "CREATED"
                ELSE IF old = {d} THEN "NCHANGE"
                ELSE "UPDATED"
          /\ retval'[i].hexdigest = d
          /\ Stored(hashes', p) = {d}
          /\ Count(hashes', p) = 1

SetStepRecords ==
    call'.action = "set" =>
      /\ Len(retval') = Len(call'.files)
      /\ \A i \in 1..Len(call'.files) : SetClassified(i)
      /\ \A n \in (NamesIn(hashes) \cup NamesIn(hashes'))
                    \ Resolved(cwd, call'.files) :
            SameEntry(hashes, hashes', n)

C1_SetClassifiesAndStores == [][SetStepRecords]_vars

\* a path created while the entry of another path stays in the table
C1_Witness ==
    /\ call.action = "set"
    /\ Len(retval) = 1
    /\ retval[1].state = "CREATED"
    /\ Len(hashes) = 2

(***************************************************************************)
(* C2.  A set of a path whose file cannot be read returns FILEERR with the *)
(* sentinel digest and leaves the table as it was: the entry of that path, *)
(* if any, keeps its digest, and a set of unreadable paths alone changes   *)
(* nothing at all.                                                         *)
(***************************************************************************)
SetFailed(i) ==
    LET p == abspath(cwd, call'.files[i])
    IN  ~Readable(p) =>
          /\ retval'[i].state = "FILEERR"
          /\ retval'[i].hexdigest = Sentinel
          /\ SameEntry(hashes, hashes', p)

SetStepFileErr ==
    call'.action = "set" =>
      /\ \A i \in 1..Len(call'.files) : SetFailed(i)
      /\ (\A i \in 1..Len(call'.files) :
              ~Readable(abspath(cwd, call'.files[i]))) => hashes' = hashes

C2_SetFileErrLeavesStore == [][SetStepFileErr]_vars

\* a FILEERR on a path that still has its entry from an earlier set
C2_Witness ==
    /\ call.action = "set"
    /\ \E i \in 1..Len(retval) :
          /\ retval[i].state = "FILEERR"
          /\ retval[i].hexdigest = Sentinel
          /\ Stored(hashes, retval[i].abspath) # {}

(***************************************************************************)
(* C3.  A get of a readable file with digest d returns HIT with exactly    *)
(* the paths the table maps to d when there are some, the queried path     *)
(* among them when it is recorded with d, and N/A with no path when there  *)
(* are none; a get of an unreadable file returns ERR, the sentinel and no  *)
(* path.                                                                   *)
(***************************************************************************)
GetClassified(i) ==
    LET q == abspath(cwd, call'.files[i])
        r == retval'[i]
    IN  IF Readable(q)
        THEN LET d == Sha256Hex(fs[q])
                 matching == PathsWith(hashes, d)
             IN  /\ r.state = IF matching # {} THEN "HIT" ELSE "N/A"
                 /\ r.hexdigest = d
                 /\ SeqToSet(r.names) = matching
                 /\ Len(r.names) = Cardinality(matching)
        ELSE /\ r.state = "ERR"
             /\ r.hexdigest = Sentinel
             /\ r.names = <<>>

GetStepAnswers ==
    call'.action = "get" =>
      /\ Len(retval') = Len(call'.files)
      /\ \A i \in 1..Len(call'.files) : GetClassified(i)

C3_GetListsPathsOfDigest == [][GetStepAnswers]_vars

\* a HIT that lists two paths, the queried one among them
C3_Witness ==
    /\ call.action = "get"
    /\ \E i \in 1..Len(retval) :
          /\ retval[i].state = "HIT"
          /\ Len(retval[i].names) = 2
          /\ retval[i].abspath \in SeqToSet(retval[i].names)

(***************************************************************************)
(* C4.  A get never writes: whatever the list and whatever each path is    *)
(* classified as, the table after the get is the table before it.          *)
(***************************************************************************)
GetStepReadOnly == call'.action = "get" => hashes' = hashes

C4_GetNeverWrites == [][GetStepReadOnly]_vars

\* a get over a non-empty table that met a recorded, an unrecorded and an
\* unreadable path
C4_Witness ==
    /\ call.action = "get"
    /\ Len(hashes) > 0
    /\ \E i, j \in 1..Len(retval) :
          /\ retval[i].state \in {"N/A", "ERR"}
          /\ retval[j].state = "HIT"

(***************************************************************************)
(* C5.  Round trip.  While the last successful set of a path F recorded    *)
(* content C and no unset of F and no clear followed, a get of any         *)
(* readable file whose content is C, at F or elsewhere, returns HIT and    *)
(* lists F.                                                                *)
(***************************************************************************)
GetFindsRecorded(i) ==
    LET q == abspath(cwd, call'.files[i])
    IN  Readable(q) =>
          \A F \in DOMAIN recorded :
              recorded[F] = fs[q] =>
                /\ retval'[i].state = "HIT"
                /\ F \in SeqToSet(retval'[i].names)

GetStepRoundTrip ==
    call'.action = "get" =>
      \A i \in 1..Len(call'.files) : GetFindsRecorded(i)

C5_RoundTrip == [][GetStepRoundTrip]_vars

\* a get of a file at one path lists another path, recorded with the same
\* content, whose own file has since changed or gone
C5_Witness ==
    /\ call.action = "get"
    /\ \E i \in 1..Len(retval) :
          /\ retval[i].state = "HIT"
          /\ \E F \in DOMAIN recorded :
                /\ F # retval[i].abspath
                /\ F \in SeqToSet(retval[i].names)
                /\ recorded[F] = fs[retval[i].abspath]
                /\ (F \notin DOMAIN fs \/ fs[F] # recorded[F])

(***************************************************************************)
(* C6.  Idempotence of set.  A set run a second time right after the same  *)
(* set, the files unchanged, returns NCHANGE for every path the first run  *)
(* created, with the digest of the first run, which is still the digest    *)
(* stored; the second run leaves the table as it was.                      *)
(***************************************************************************)
SetAgain(i) ==
    LET p == abspath(cwd, call'.files[i])
        first == prior'[1][i]
    IN  first.state = "CREATED" =>
          /\ retval'[i].state = "NCHANGE"
          /\ retval'[i].hexdigest = first.hexdigest
          /\ Stored(hashes, p) = {first.hexdigest}
          /\ Stored(hashes', p) = {first.hexdigest}

SetStepRepeated ==
    (call'.action = "set" /\ prior' # <<>>) =>
      /\ hashes' = hashes
      /\ \A i \in 1..Len(call'.files) : SetAgain(i)

C6_SetIdempotent == [][SetStepRepeated]_vars

\* CREATED, then NCHANGE from the same call
C6_Witness ==
    /\ call.action = "set"
    /\ prior # <<>>
    /\ \E i \in 1..Len(retval) :
          /\ prior[1][i].state = "CREATED"
          /\ retval[i].state = "NCHANGE"

(***************************************************************************)
(* C7.  A set of path p after the content of its file changed since the    *)
(* last successful set of p (digest D1 then, D2 now, D1 # D2) returns      *)
(* UPDATED; afterwards the table maps p to D2 and no longer to D1; and a   *)
(* get lists a recorded path only under the digest of the content of its   *)
(* last set, so a get of a file with the old content does not list p.      *)
(***************************************************************************)
SetAfterChange(i) ==
    LET p == abspath(cwd, call'.files[i])
        D1 == Sha256Hex(recorded[p])
        D2 == Sha256Hex(fs[p])
    IN  (/\ Readable(p)
         /\ p \in DOMAIN recorded
         /\ FirstOccurrence(cwd, call'.files, i)
         /\ D1 # D2) =>
          /\ retval'[i].state = "UPDATED"
          /\ retval'[i].hexdigest = D2
          /\ Stored(hashes', p) = {D2}
          /\ p \notin PathsWith(hashes', D1)

GetListsLatestOnly(i) ==
    \A p \in SeqToSet(retval'[i].names) :
        /\ p \in DOMAIN recorded
        /\ Sha256Hex(recorded[p]) = retval'[i].hexdigest

StepLatestContent ==
    /\ call'.action = "set" =>
          \A i \in 1..Len(call'.files) : SetAfterChange(i)
    /\ call'.action = "get" =>
          \A i \in 1..Len(call'.files) : GetListsLatestOnly(i)

C7_UpdatedKeepsLatestOnly == [][StepLatestContent]_vars

\* an UPDATED whose new digest is the one stored, beside another path that
\* still holds the other digest
C7_Witness ==
    /\ call.action = "set"
    /\ \E i \in 1..Len(retval) :
          /\ retval[i].state = "UPDATED"
          /\ Stored(hashes, retval[i].abspath) = {retval[i].hexdigest}
          /\ \E n \in NamesIn(hashes) :
                Stored(hashes, n) # {retval[i].hexdigest}

(***************************************************************************)
(* C8.  An unset of a recorded path returns DELETED and removes the entry  *)
(* of that path alone: every other entry, those with the same digest       *)
(* included, is as it was.  An unset of a path with no successful set      *)
(* since its last unset returns NOENTRY, and the same unset run again      *)
(* right away returns NOENTRY for every path and leaves the table as it    *)
(* was.                                                                    *)
(***************************************************************************)
UnsetRemoves(i) ==
    LET p == abspath(cwd, call'.files[i])
    IN  /\ Stored(hashes', p) = {}
        /\ (FirstOccurrence(cwd, call'.files, i) /\ p \in DOMAIN recorded)
              => retval'[i].state = "DELETED"
        /\ p \notin DOMAIN recorded => retval'[i].state = "NOENTRY"

UnsetStepExact ==
    call'.action = "unset" =>
      /\ Len(retval') = Len(call'.files)
      /\ \A i \in 1..Len(call'.files) : UnsetRemoves(i)
      /\ \A n \in (NamesIn(hashes) \cup NamesIn(hashes'))
                    \ Resolved(cwd, call'.files) :
            SameEntry(hashes, hashes', n)
      /\ prior' # <<>> =>
            /\ hashes' = hashes
            /\ \A i \in 1..Len(call'.files) : retval'[i].state = "NOENTRY"

C8_UnsetRemovesExactly == [][UnsetStepExact]_vars

\* DELETED then NOENTRY from the same unset, while another path keeps its
\* entry with the digest of the one removed
C8_Witness ==
    /\ call.action = "unset"
    /\ prior # <<>>
    /\ Len(retval) = 1
    /\ prior[1][1].state = "DELETED"
    /\ retval[1].state = "NOENTRY"
    /\ PathsWith(hashes, prior[1][1].hexdigest) # {}

(***************************************************************************)
(* C9.  Unset does not look at the file.  Whether the file of the path is  *)
(* readable, missing or changed, an unset returns DELETED, with the digest *)
(* that was stored, when the table has an entry for the path, and NOENTRY, *)
(* with the sentinel, when it has none.                                    *)
(***************************************************************************)
UnsetByPath(i) ==
    LET p == abspath(cwd, call'.files[i])
        old == IF FirstOccurrence(cwd, call'.files, i)
               THEN Stored(hashes, p) ELSE {}
    IN  IF old # {}
        THEN /\ retval'[i].state = "DELETED"
             /\ old = {retval'[i].hexdigest}
        ELSE /\ retval'[i].state = "NOENTRY"
             /\ retval'[i].hexdigest = Sentinel

UnsetStepKeyedOnPath ==
    call'.action = "unset" =>
      \A i \in 1..Len(call'.files) : UnsetByPath(i)

C9_UnsetKeyedOnPath == [][UnsetStepKeyedOnPath]_vars

\* in one unset: DELETED for a path whose file is gone, and DELETED with the
\* stored digest for a path whose file now has another digest
C9_Witness ==
    /\ call.action = "unset"
    /\ \E i, j \in 1..Len(retval) :
          /\ retval[i].state = "DELETED"
          /\ ~Readable(retval[i].abspath)
          /\ retval[j].state = "DELETED"
          /\ Readable(retval[j].abspath)
          /\ retval[j].hexdigest # Sha256Hex(fs[retval[j].abspath])

(***************************************************************************)
(* C10.  A clear, whatever file list it is given, returns the number of    *)
(* entries the table held when it started (the paths set and not unset     *)
(* since) and leaves the table empty, its count 0; a get that follows      *)
(* finds nothing: N/A for every readable file.                             *)
(***************************************************************************)
ClearStepWipes ==
    /\ call'.action = "clear" =>
          /\ retval' = Cardinality(NamesIn(hashes))
          /\ retval' = Cardinality(DOMAIN recorded)
          /\ hashes' = <<>>
          /\ get_number_of_hashes(hashes') = 0
    /\ (call.action = "clear" /\ call'.action = "get") =>
          \A i \in 1..Len(call'.files) :
              /\ retval'[i].state =
                    IF Readable(abspath(cwd, call'.files[i]))
                    THEN "N/A" ELSE "ERR"
              /\ retval'[i].names = <<>>

C10_ClearWipesAndCounts == [][ClearStepWipes]_vars

\* a clear given a file list that removed one entry
C10_Witness ==
    /\ call.action = "clear"
    /\ Len(call.files) > 0
    /\ retval = 1
    /\ hashes = <<>>


(***************************************************************************)
(* C11.  The sentinel digest is never stored: whatever sets, gets, unsets  *)
(* and clears ran, on readable and unreadable files, no row of the table   *)
(* holds the sentinel.                                                     *)
(***************************************************************************)
C11_SentinelNeverStored ==
    \A i \in 1..Len(hashes) : hashes[i].hash # Sentinel

\* a set that returned the sentinel for one path and stored another
C11_Witness ==
    /\ call.action = "set"
    /\ Len(hashes) = 1
    /\ \E i, j \in 1..Len(retval) :
          /\ retval[i].state = "FILEERR"
          /\ retval[i].hexdigest = Sentinel
          /\ retval[j].state = "CREATED"

(***************************************************************************)
(* C12.  Entry lifecycle.  The table holds at most one row for a path, and *)
(* a path has an entry exactly when a set of it succeeded and no unset of  *)
(* it and no clear came after the last such set; the entry then holds the  *)
(* digest of the content that set read.  Gets, failed sets and sets or     *)
(* unsets of other paths therefore neither create nor remove it.           *)
(***************************************************************************)
C12_EntryLifecycle ==
    /\ \A n \in NamesIn(hashes) : Count(hashes, n) = 1
    /\ NamesIn(hashes) = DOMAIN recorded
    /\ \A n \in DOMAIN recorded : Stored(hashes, n) = {Sha256Hex(recorded[n])}

\* a path whose entry was removed by an unset though its file is readable,
\* beside a path that keeps its entry
C12_Witness ==
    /\ call.action = "unset"
    /\ Len(hashes) = 1
    /\ \E i \in 1..Len(retval) :
          /\ retval[i].state = "DELETED"
          /\ Readable(retval[i].abspath)
          /\ retval[i].abspath \notin NamesIn(hashes)


(***************************************************************************)
(* C13.  A set or a get over a list handles every path once, in input      *)
(* order, each path fully before the next: the result has one entry per    *)
(* input path, in order, and it is the result of running the paths one by  *)
(* one as invocations of their own, so path i meets the table the paths    *)
(* before it left.  A path that cannot be read gets FILEERR or ERR, and    *)
(* only such a path does: the paths after it are handled all the same.     *)
(***************************************************************************)
\* the table and the results after the first n paths were set one by one
RECURSIVE SetOneByOne(_, _)
SetOneByOne(filepaths, n) ==
    IF n = 0 THEN [db |-> hashes, result |-> <<>>]
    ELSE LET before == SetOneByOne(filepaths, n - 1)
             one == _set_hashes(before.db, fs, cwd, <<filepaths[n]>>,
                                LibraryFlags)
         IN  [db |-> one.db, result |-> before.result \o one.result]

\* the results after the first n paths were queried one by one
RECURSIVE GetOneByOne(_, _)
GetOneByOne(filepaths, n) ==
    IF n = 0 THEN <<>>
    ELSE GetOneByOne(filepaths, n - 1)
         \o _get_hashes(hashes, fs, cwd, <<filepaths[n]>>, LibraryFlags).result

InInputOrder ==
    /\ Len(retval') = Len(call'.files)
    /\ \A i \in 1..Len(call'.files) :
          /\ retval'[i].abspath = abspath(cwd, call'.files[i])
          /\ retval'[i].state \in {"FILEERR", "ERR"}
                <=> ~Readable(abspath(cwd, call'.files[i]))

StepSequential ==
    /\ call'.action = "set" =>
          /\ InInputOrder
          /\ retval' = SetOneByOne(call'.files, Len(call'.files)).result
          /\ hashes' = SetOneByOne(call'.files, Len(call'.files)).db
    /\ call'.action = "get" =>
          /\ InInputOrder
          /\ retval' = GetOneByOne(call'.files, Len(call'.files))

C13_ListProcessedInOrder == [][StepSequential]_vars

\* a set whose first path could not be read and whose second was created
C13_Witness ==
    /\ call.action = "set"
    /\ Len(retval) = 2
    /\ retval[1].state = "FILEERR"
    /\ retval[2].state = "CREATED"
    /\ NamesIn(hashes) = {retval[2].abspath}


(***************************************************************************)
(* C15.  Relative paths are resolved against the working directory before  *)
(* hashing and storing.  The argument a names /a from / and /d/a from /d,  *)
(* the argument /d/a names /d/a from anywhere.  Every key of the table is  *)
(* absolute; a set, a get and an unset reach the file and the one entry    *)
(* of the absolute path the argument names, whichever way it was written   *)
(* and wherever the entry was made; every result carries that absolute     *)
(* path.                                                                   *)
(***************************************************************************)
\* what an argument names, written out for the arguments of the model
Target(wd, arg) ==
    IF arg = <<"a">> THEN (IF wd = Root THEN FileA ELSE FileDA) ELSE arg

Addressed(i) ==
    LET t == Target(cwd, call'.files[i])
        first == \A j \in 1..(i - 1) : Target(cwd, call'.files[j]) # t
    IN  /\ retval'[i].abspath = t
        /\ isabs(retval'[i].abspath)
        /\ (call'.action = "set" /\ Readable(t)) =>
              /\ retval'[i].hexdigest = Sha256Hex(fs[t])
              /\ Stored(hashes', t) = {Sha256Hex(fs[t])}
              /\ Count(hashes', t) = 1
        /\ (call'.action = "set" /\ ~Readable(t)) =>
              retval'[i].state = "FILEERR"
        /\ call'.action = "get" =>
              /\ Readable(t) => retval'[i].hexdigest = Sha256Hex(fs[t])
              /\ \A n \in SeqToSet(retval'[i].names) : isabs(n)
        /\ call'.action = "unset" =>
              /\ Stored(hashes', t) = {}
              /\ first =>
                    retval'[i].state =
                        IF Stored(hashes, t) = {} THEN "NOENTRY" ELSE "DELETED"

StepResolvesPaths ==
    /\ \A n \in NamesIn(hashes') : isabs(n) /\ n \in FsPaths
    /\ call'.action \in {"set", "get", "unset"} =>
          \A i \in 1..Len(call'.files) : Addressed(i)

C15_PathsResolved == [][StepResolvesPaths]_vars

\* from /d, the relative argument a and the absolute argument /d/a, set in
\* one list, made one entry: CREATED, then NCHANGE
C15_Witness ==
    /\ call.action = "set"
    /\ cwd = DirD
    /\ call.files = << <<"a">>, FileDA >>
    /\ retval[1].state = "CREATED"
    /\ retval[2].state = "NCHANGE"
    /\ retval[1].abspath = FileDA
    /\ NamesIn(hashes) = {FileDA}


(***************************************************************************)
(* C19.  Change detection.  For a path p that has an entry and a readable  *)
(* file, a get of p lists p exactly when the digest stored for p is the    *)
(* digest of the file now.  When the content changed since the last set of *)
(* p, the get returns N/A, or a HIT that does not list p, and the entry of *)
(* p stays, with the digest of the old content.                            *)
(***************************************************************************)
GetDetectsChange(i) ==
    LET p == abspath(cwd, call'.files[i])
        now == Sha256Hex(fs[p])
        listed == p \in SeqToSet(retval'[i].names)
    IN  (Readable(p) /\ p \in NamesIn(hashes)) =>
          /\ listed <=> Stored(hashes, p) = {now}
          /\ (p \in DOMAIN recorded /\ recorded[p] # fs[p]) =>
                /\ ~listed
                /\ retval'[i].state \in {"N/A", "HIT"}
                /\ retval'[i].state = "HIT" => retval'[i].names # <<>>
                /\ Stored(hashes', p) = {Sha256Hex(recorded[p])}
                /\ Count(hashes', p) = 1

GetStepChangeDetection ==
    call'.action = "get" =>
      \A i \in 1..Len(call'.files) : GetDetectsChange(i)

C19_GetDetectsChange == [][GetStepChangeDetection]_vars

\* a get of a recorded path whose file changed: a HIT that lists another
\* path only, the stale entry still in the table
C19_Witness ==
    /\ call.action = "get"
    /\ \E i \in 1..Len(retval) :
          LET p == retval[i].abspath
          IN  /\ p \in DOMAIN recorded
              /\ Readable(p)
              /\ recorded[p] # fs[p]
              /\ retval[i].state = "HIT"
              /\ p \notin SeqToSet(retval[i].names)
              /\ p \in NamesIn(hashes)


(***************************************************************************)
(* C18.  The content hasher reads chunk after chunk until a read returns   *)
(* nothing and then returns the digest of all the bytes of the file.  An   *)
(* OSError at the open or at any read, the last, empty one included,       *)
(* however many chunks were read before, makes it return None: never the   *)
(* digest of a part, and no call is tried again.                           *)
(***************************************************************************)
\* the calls a run without error makes on a file of n bytes: the open, a
\* read per chunk, and the read that returns nothing
CallsOnFile(n) == 1 + ((n + ChunkSize - 1) \div ChunkSize) + 1

C18_HasherAllOrNothing ==
    call.action = "hash" =>
        LET f == call.file
        IN  retval = << IF f.fail \in 1..CallsOnFile(Len(f.data))
                        THEN None ELSE Sha256Hex(f.data) >>

\* an OSError at the third read, after two full chunks went into the digest
C18_Witness ==
    /\ call.action = "hash"
    /\ call.file.fail = 4
    /\ Len(call.file.data) > 2 * ChunkSize
    /\ retval = <<None>>


(***************************************************************************)
(* C14.  Run with an action that is none of s/set, g/get, u/unset,         *)
(* c/clear, the program prints the usage and one error line and exits      *)
(* with status 2 before anything is processed: the database is not opened, *)
(* the table is as it was, no path is hashed and nothing is logged, even   *)
(* in verbose mode.  With any of the eight recognized actions the exit     *)
(* status is 0 whatever the states of the paths, FILEERR, ERR and NOENTRY   *)
(* included.                                                               *)
(***************************************************************************)
Recognized == {"s", "set", "g", "get", "u", "unset", "c", "clear"}

MainStepExit ==
    run' # <<>> =>
        IF call'.action \in Recognized
        THEN run'[1].status = 0
        ELSE /\ run'[1].status = 2
             /\ ~run'[1].opened
             /\ run'[1].hashed = <<>>
             /\ hashes' = hashes
             /\ retval' = <<>>
             /\ stderr' = <<>>
             /\ Len(stdout') = 2
             /\ stdout'[2] = ActionError

C14_UnknownActionExits2 == [][MainStepExit]_vars

\* an unknown action in verbose mode, with a readable file named and a
\* table that holds a row
C14_Witness ==
    /\ run # <<>>
    /\ call.action = "x"
    /\ call.flags.verbose
    /\ call.files = <<FileDA>>
    /\ Readable(FileDA)
    /\ hashes # <<>>
    /\ run[1].status = 2

(***************************************************************************)
(* C16.  Display policy.  A run of set, get or unset prints the line of a  *)
(* path if and only if it is not silent and either show-all is on or the   *)
(* state of the path is CREATED, UPDATED or FILEERR (set), HIT or ERR      *)
(* (get), DELETED (unset).  The lines printed are those of exactly these   *)
(* paths, in the order of the list; a silent run prints none.              *)
(***************************************************************************)
PerPath == Recognized \ {"c", "clear"}

Interesting(action) ==
    IF action \in {"s", "set"} THEN {"CREATED", "UPDATED", "FILEERR"}
    ELSE IF action \in {"g", "get"} THEN {"HIT", "ERR"}
    ELSE {"DELETED"}

Displayed(i) ==
    /\ ~call.flags.silent
    /\ call.flags.show_all \/ retval[i].state \in Interesting(call.action)

\* the lines that can stand for the i-th path: its state, its digest or
\* not, the path as given or resolved, and for get the paths found
LinesAbout(i) ==
    LET r == retval[i]
        found == IF call.action \in {"g", "get"}
                 THEN IF r.names = <<>> THEN " "
                      ELSE " -> " \o JoinNames(r.names)
                 ELSE ""
    IN  {r.state \o digest \o " " \o PathStr(p) \o found :
            digest \in {"", " " \o r.hexdigest},
            p \in {call.files[i], r.abspath}}

C16_DisplayPolicy ==
    (run # <<>> /\ call.action \in PerPath) =>
        LET printed == {i \in 1..Len(retval) : Displayed(i)}
            rank(i) == Cardinality({j \in printed : j <= i})
        IN  /\ Len(retval) = Len(call.files)
            /\ Len(stdout) = Cardinality(printed)
            /\ \A i \in printed : stdout[rank(i)] \in LinesAbout(i)

\* a set of two paths without show-all: the first is unchanged and is not
\* printed, the second is created and is
C16_Witness ==
    /\ run # <<>>
    /\ call.action = "s"
    /\ ~call.flags.silent
    /\ ~call.flags.show_all
    /\ Len(retval) = 2
    /\ retval[1].state = "NCHANGE"
    /\ retval[2].state = "CREATED"
    /\ Len(stdout) = 1

(***************************************************************************)
(* C17.  The flags silent, show-absolute-paths, show-hashes, show-all and  *)
(* verbose change what is printed and logged only: a run of set, get or    *)
(* unset leaves the table and returns the list of per-path results that    *)
(* the run with the same table, files, directory and list leaves and       *)
(* returns with the flags of the library entry points.  Two runs that      *)
(* differ in the flags alone therefore agree with each other.              *)
(***************************************************************************)
MainStepFlagsFree ==
    (run' # <<>> /\ call'.action \in PerPath) =>
        LET q == main(hashes, fs, cwd, call'.action, call'.files,
                      LibraryFlags)
        IN  /\ hashes' = q.db
            /\ retval' = q.result

C17_FlagsDoNotChangeResults == [][MainStepFlagsFree]_vars

\* a run that prints and logs, where the library flags do neither: an
\* unchanged path and a created one
C17_Witness ==
    /\ run # <<>>
    /\ call.action = "set"
    /\ call.flags = [show_hashes |-> TRUE, show_absolute_paths |-> TRUE,
                     show_all |-> TRUE, silent |-> FALSE, verbose |-> TRUE]
    /\ Len(retval) = 2
    /\ retval[1].state = "NCHANGE"
    /\ retval[2].state = "CREATED"
    /\ Len(stdout) = 2
    /\ stderr # <<>>


(***************************************************************************)
(* C20.  Every write to the table (store_hash, delete_by_name, delete_all) *)
(* is one committed statement, and nothing ties the lookup of a workflow   *)
(* to its write: another invocation can write in between.  However two     *)
(* invocations interleave, one store call at a time, the table never holds *)
(* two rows for a path and never the sentinel digest.                      *)
(***************************************************************************)
C20_OneDigestPerPathUnderInterleaving ==
    /\ \A n \in NamesIn(hashes) : Count(hashes, n) = 1
    /\ \A i \in 1..Len(hashes) : hashes[i].hash # Sentinel

\* invocation 1 found no row for /a and is about to store it as CREATED,
\* while invocation 2 has stored another digest for /a since that lookup
C20_Witness ==
    /\ At(1, "set", "write")
    /\ procs[1].state = "CREATED"
    /\ Current(1) = FileA
    /\ procs[2].action = "set"
    /\ Stored(hashes, FileA) # {}
    /\ Stored(hashes, FileA) # {procs[1].local}

====
